---- MODULE Spec2Model ----
(***************************************************************************)
(* AlgoGameSim: the Agent and Content value objects (agent.py, content.py) *)
(* and the match scorer compute_base_match_df (logic.py).                  *)
(*                                                                         *)
(* Python values are records tagged by k.  Real numbers are exact fixed    *)
(* point: the field v of a number holds it in tenths, so 0.5 is 5 and 30   *)
(* is 300.  Strings are sequences of one-character strings, so that        *)
(* strip(), lower() and numeric parsing are computed, not assumed.         *)
(***************************************************************************)
EXTENDS Integers, Sequences, FiniteSets, TLC

VARIABLES
    heap,      \* ref -> object: the DataFrames, dicts and instances alive
    pc,        \* "idle" or the name of the call that has just returned
    args,      \* the arguments of that call
    before,    \* the heap as it was when the call was made
    ret        \* what the call returned or raised

vars == <<heap, pc, args, before, ret>>

----------------------------------------------------------------------------
(* Values *)

\* a real number r, given as an integer, in tenths
Fixed(n) == n * 10

None == [k |-> "None"]
NaN == [k |-> "nan"]
PyInt(n) == [k |-> "int", v |-> Fixed(n)]
\* a float, given in tenths
PyFloat(t) == [k |-> "float", v |-> t]
PyStr(s) == [k |-> "str", s |-> s]
Ref(r) == [k |-> "ref", r |-> r]
Raised(e) == [k |-> "raised", e |-> e]

IsNumber(x) == x.k \in {"int", "float"}

western == <<"w", "e", "s", "t", "e", "r", "n">>
eastern == <<"e", "a", "s", "t", "e", "r", "n">>
african == <<"a", "f", "r", "i", "c", "a", "n">>
indigenous == <<"i", "n", "d", "i", "g", "e", "n", "o", "u", "s">>
multicultural == <<"m", "u", "l", "t", "i", "c", "u", "l", "t", "u", "r", "a", "l">>

\* member name -> value, the same in agent.CulturalEnum and content.CulturalEnum
CulturalEnum ==
    [WESTERN |-> western, EASTERN |-> eastern, AFRICAN |-> african,
     INDIGENOUS |-> indigenous, MULTICULTURAL |-> multicultural]

\* A member of one of the two CulturalEnum classes (enum is "agent" or
\* "content", the module that defines the class): an object with .name and .value
Member(enum, name) ==
    [k |-> "enum", enum |-> enum, name |-> name, value |-> PyStr(CulturalEnum[name])]

----------------------------------------------------------------------------
(* str methods *)

UpperChars == <<"A", "B", "C", "D", "E", "F", "G", "H", "I", "J", "K", "L", "M",
                "N", "O", "P", "Q", "R", "S", "T", "U", "V", "W", "X", "Y", "Z">>
LowerChars == <<"a", "b", "c", "d", "e", "f", "g", "h", "i", "j", "k", "l", "m",
                "n", "o", "p", "q", "r", "s", "t", "u", "v", "w", "x", "y", "z">>
Whitespace == {" ", "\t", "\n"}
Digits == <<"0", "1", "2", "3", "4", "5", "6", "7", "8", "9">>

LowerChar(c) ==
    IF \E i \in 1..Len(UpperChars) : UpperChars[i] = c
    THEN LowerChars[CHOOSE i \in 1..Len(UpperChars) : UpperChars[i] = c]
    ELSE c

\* s.lower()
lower(s) == [i \in 1..Len(s) |-> LowerChar(s[i])]

\* s.strip(): drop the leading and the trailing whitespace
strip(s) ==
    LET keep == {i \in 1..Len(s) : s[i] \notin Whitespace}
    IN  IF keep = {} THEN <<>>
        ELSE LET lo == CHOOSE i \in keep : \A j \in keep : i <= j
                 hi == CHOOSE i \in keep : \A j \in keep : j <= i
             IN  SubSeq(s, lo, hi)

IsDigit(c) == \E i \in 1..Len(Digits) : Digits[i] = c
DigitVal(c) == (CHOOSE i \in 1..Len(Digits) : Digits[i] = c) - 1

RECURSIVE DigitsVal(_)
\* the number a non-empty run of digits denotes
DigitsVal(s) ==
    IF Len(s) = 0 THEN 0
    ELSE DigitsVal(SubSeq(s, 1, Len(s) - 1)) * 10 + DigitVal(s[Len(s)])

AllDigits(s) == Len(s) > 0 /\ \A i \in 1..Len(s) : IsDigit(s[i])

\* The parse of a string as a number, in tenths: digits, optionally a point
\* and one more digit (the precision of the fixed point); a string that holds
\* anything else, or nothing, does not parse (NaN).
ParseNumber(s) ==
    LET n == Len(s)
    IN  IF AllDigits(s) THEN PyFloat(Fixed(DigitsVal(s)))
        ELSE IF n >= 3 /\ s[n - 1] = "." /\ AllDigits(SubSeq(s, 1, n - 2)) /\ IsDigit(s[n])
        THEN PyFloat(Fixed(DigitsVal(SubSeq(s, 1, n - 2))) + DigitVal(s[n]))
        ELSE NaN

----------------------------------------------------------------------------
(* pandas *)

\* pd.isna(x) of a scalar
isna(x) == x.k \in {"None", "nan"}

\* pd.to_numeric(x, errors="coerce") of a scalar, with the except branch
\* around it: a number is returned as it is, None and what does not parse
\* are NaN, and an object that is no scalar raises and is NaN too.
to_numeric(x) ==
    CASE IsNumber(x) -> x
      [] x.k = "str" -> ParseNumber(x.s)
      [] OTHER -> NaN

\* a float that need not be a whole number of tenths: num/den tenths
Ratio(num, den) == [k |-> "ratio", num |-> num, den |-> den]

Abs(n) == IF n < 0 THEN -n ELSE n

\* A DataFrame: its column labels in order, the cells of each column, and
\* the number of rows (the index is 0..n-1 and is never changed).
DataFrame(columns, data, n) ==
    [type |-> "DataFrame", columns |-> columns, data |-> data, n |-> n]

Dict(map) == [type |-> "dict", map |-> map]

HasColumn(df, c) == \E i \in 1..Len(df.columns) : df.columns[i] = c

\* df[c] = series: an existing column is replaced where it stands, a new one
\* is appended after the others
SetColumn(df, c, series) ==
    DataFrame(IF HasColumn(df, c) THEN df.columns ELSE Append(df.columns, c),
              [d \in DOMAIN df.data \cup {c} |-> IF d = c THEN series ELSE df.data[d]],
              df.n)

\* df[c] = scalar: the scalar in every row
Broadcast(df, x) == [i \in 1..df.n |-> x]

\* pd.to_numeric(series, errors="coerce"): a float64 column, NaN where a cell
\* is missing or does not parse
to_numeric_series(series) ==
    [i \in 1..Len(series) |->
        LET x == to_numeric(series[i])
        IN  IF IsNumber(x) THEN PyFloat(x.v) ELSE NaN]

\* series - c for a float c that is not NaN: NaN stays NaN
SeriesSub(series, c) ==
    [i \in 1..Len(series) |-> IF isna(series[i]) THEN NaN ELSE PyFloat(series[i].v - c.v)]

\* series.abs()
SeriesAbs(series) ==
    [i \in 1..Len(series) |-> IF isna(series[i]) THEN NaN ELSE PyFloat(Abs(series[i].v))]

RECURSIVE SumSkipNa(_)
\* the sum of the cells of a row that are not NaN
SumSkipNa(row) ==
    IF Len(row) = 0 THEN 0
    ELSE (IF isna(Head(row)) THEN 0 ELSE Head(row).v) + SumSkipNa(Tail(row))

RECURSIVE CountSkipNa(_)
\* the number of cells of a row that are not NaN
CountSkipNa(row) ==
    IF Len(row) = 0 THEN 0
    ELSE (IF isna(Head(row)) THEN 0 ELSE 1) + CountSkipNa(Tail(row))

\* the mean with a missing cell counted as 0.0 among the len(cols)
MeanFillZero(df, cols) ==
    [i \in 1..df.n |->
        LET row == [j \in 1..Len(cols) |-> df.data[cols[j]][i]]
        IN  Ratio(SumSkipNa(row), Len(cols))]

\* df[cols].mean(axis=1, skipna=True): per row, the mean of the cells that
\* are not NaN, and NaN for a row that has none
MeanSkipNa(df, cols) ==
    [i \in 1..df.n |->
        LET row == [j \in 1..Len(cols) |-> df.data[cols[j]][i]]
        IN  IF CountSkipNa(row) = 0 THEN NaN
            ELSE Ratio(SumSkipNa(row), CountSkipNa(row))]

\* 1 - series
OneMinus(series) ==
    [i \in 1..Len(series) |->
        IF isna(series[i]) THEN NaN
        ELSE Ratio(Fixed(1) * series[i].den - series[i].num, series[i].den)]

----------------------------------------------------------------------------
(* Builtins *)

\* str(x) of a string
str(x) == CASE x.k = "str" -> x

\* float(x) of a number or of NaN
float(x) == IF IsNumber(x) THEN PyFloat(x.v) ELSE NaN

\* hasattr(x, "value")
HasValue(x) == x.k = "enum"

\* d.get(key, None)
get(d, key) == IF key \in DOMAIN d.map THEN d.map[key] ELSE None

\* a new object on the heap: the heap with it, and the reference to it
Alloc(h, o) == [heap |-> Append(h, o), ret |-> Ref(Len(h) + 1)]

\* the heap with the object that r refers to replaced (a write through r)
Store(h, r, o) == [h EXCEPT ![r.r] = o]

Deref(h, r) == h[r.r]

----------------------------------------------------------------------------
(* agent.py and content.py *)

\* round(n / d) for n >= 0 and d > 0: to the nearest integer, a half to the
\* even one
round(n, d) ==
    LET q == n \div d
        r == n % d
    IN  IF 2 * r < d THEN q
        ELSE IF 2 * r > d THEN q + 1
        ELSE IF q % 2 = 0 THEN q ELSE q + 1

\* lo <= value <= hi of Python, for lo and hi in tenths: "TypeError" where
\* the value cannot be ordered against a number
Between(lo, value, hi) ==
    CASE IsNumber(value) -> IF lo <= value.v /\ value.v <= hi THEN "True" ELSE "False"
      [] value = NaN -> "False"
      [] OTHER -> "TypeError"

\* isinstance(value, int)
IsInt(value) == value.k = "int"

\* value in xs, for a tuple xs of ints: equality of numbers is by value
InTuple(value, xs) == IsNumber(value) /\ \E i \in 1..Len(xs) : value.v = Fixed(xs[i])

\* the check `not isinstance(value, int) or not (lo <= value <= hi)` and what follows it
IntInRange(value, lo, hi) ==
    IF ~IsInt(value) \/ Between(Fixed(lo), value, Fixed(hi)) # "True"
    THEN Raised("ValueError") ELSE value

Agent_validate_range(value, min_val, max_val) ==
    CASE Between(Fixed(min_val), value, Fixed(max_val)) = "TypeError" -> Raised("TypeError")
      [] Between(Fixed(min_val), value, Fixed(max_val)) = "False" -> Raised("ValueError")
      [] OTHER -> value

Agent_validate_education(value) == IntInRange(value, 1, 5)

\* round half up: floor(value / 5000 + 0.5)
Agent_validate_economic_status_half_up(value) ==
    IF ~(IsNumber(value) \/ value = NaN) THEN Raised("ValueError")
    ELSE IF Between(Fixed(10000), value, Fixed(500000)) # "True" THEN Raised("ValueError")
    ELSE PyInt(((2 * value.v + Fixed(5000)) \div (2 * Fixed(5000))) * 5000)

Agent_validate_economic_status(value) ==
    IF ~(IsNumber(value) \/ value = NaN) THEN Raised("ValueError")
    ELSE IF Between(Fixed(10000), value, Fixed(500000)) # "True" THEN Raised("ValueError")
    ELSE PyInt(round(value.v, Fixed(5000)) * 5000)

Agent_validate_politics(value) == IntInRange(value, -2, 2)

\* the upper bound of the age left unchecked
Agent_validate_age_unbounded(value) ==
    IF ~IsInt(value) \/ value.v < Fixed(5) THEN Raised("ValueError") ELSE value

Agent_validate_age(value) == IntInRange(value, 5, 90)

Agent_validate_sex(value) ==
    IF ~InTuple(value, <<0, 1, 2>>) THEN Raised("ValueError") ELSE value

\* CulturalEnum(value) of the class enum: the member that has this value
EnumLookup(enum, value) ==
    IF value.k = "str" /\ \E n \in DOMAIN CulturalEnum : CulturalEnum[n] = value.s
    THEN Member(enum, CHOOSE n \in DOMAIN CulturalEnum : CulturalEnum[n] = value.s)
    ELSE Raised("ValueError")

\* isinstance(value, CulturalEnum), for the CulturalEnum of the module enum
IsMember(enum, value) == value.k = "enum" /\ value.enum = enum

\* str(uuid.uuid4())
uuid4 == PyStr(<<"u", "u", "i", "d", "4">>)

\* x or y
Or(x, y) == IF x = None \/ x = PyStr(<<>>) THEN y ELSE x

\* the attributes in the order __init__ assigns them, after the identifier
Fields ==
    <<"education", "economic_status", "ethics", "politics", "cultural", "age", "sex",
      "novelty", "conscientiousness", "impulsivity", "tech_affinity", "social_trust">>

FieldSet == {Fields[i] : i \in 1..Len(Fields)}

\* the parameters of Agent.__init__ after self, and their defaults
AgentDefaults ==
    [agent_id |-> None, education |-> PyInt(1), economic_status |-> PyFloat(5),
     ethics |-> PyFloat(5), politics |-> PyInt(0), cultural |-> Member("agent", "WESTERN"),
     age |-> PyInt(30), sex |-> PyInt(0), novelty |-> PyFloat(5),
     conscientiousness |-> PyFloat(5), impulsivity |-> PyFloat(5),
     tech_affinity |-> PyFloat(5), social_trust |-> PyFloat(5)]

\* the parameters of Content.__init__ after self: every default is None
ContentDefaults == [f \in {"content_id"} \cup FieldSet |-> None]

\* the value a parameter is bound to: the one given, or its default
Bind(defaults, kwargs, f) == IF f \in DOMAIN kwargs THEN kwargs[f] ELSE defaults[f]

\* the right-hand side of the assignment of attribute f in Agent.__init__
AgentAssign(f, value) ==
    CASE f = "education" -> Agent_validate_education(value)
      [] f = "economic_status" -> Agent_validate_economic_status(value)
      [] f = "politics" -> Agent_validate_politics(value)
      [] f = "cultural" -> IF IsMember("agent", value) THEN value ELSE EnumLookup("agent", value)
      [] f = "age" -> Agent_validate_age(value)
      [] f = "sex" -> Agent_validate_sex(value)
      [] OTHER -> Agent_validate_range(value, 0, 1)

Content_validate_range(value, min_val, max_val) ==
    IF value = None THEN None
    ELSE CASE Between(Fixed(min_val), value, Fixed(max_val)) = "TypeError" -> Raised("TypeError")
           [] Between(Fixed(min_val), value, Fixed(max_val)) = "False" -> Raised("ValueError")
           [] OTHER -> value

Content_validate_education(value) ==
    IF value = None THEN None ELSE IntInRange(value, 1, 5)

Content_validate_economic_status(value) ==
    IF value = None THEN None
    ELSE IF ~(IsNumber(value) \/ value = NaN) THEN Raised("ValueError")
    ELSE IF Between(Fixed(10000), value, Fixed(500000)) # "True" THEN Raised("ValueError")
    ELSE PyInt(round(value.v, Fixed(5000)) * 5000)

Content_validate_politics(value) ==
    IF value = None THEN None ELSE IntInRange(value, -2, 2)

Content_validate_age(value) ==
    IF value = None THEN None ELSE IntInRange(value, 5, 90)

Content_validate_sex(value) ==
    IF value = None THEN None
    ELSE IF ~InTuple(value, <<0, 1>>) THEN Raised("ValueError") ELSE value

\* the right-hand side of the assignment of attribute f in Content.__init__
ContentAssign(f, value) ==
    IF f = "cultural"
    THEN IF value = None \/ IsMember("content", value) THEN value
         ELSE EnumLookup("content", value)
    ELSE IF value = None THEN None
    ELSE CASE f = "education" -> Content_validate_education(value)
           [] f = "economic_status" -> Content_validate_economic_status(value)
           [] f = "politics" -> Content_validate_politics(value)
           [] f = "age" -> Content_validate_age(value)
           [] f = "sex" -> Content_validate_sex(value)
           [] OTHER -> Content_validate_range(value, 0, 1)

\* the right-hand side of the assignment of attribute f in __init__ of cls
Assign(cls, f, value) ==
    IF cls = "Agent" THEN AgentAssign(f, value) ELSE ContentAssign(f, value)

Defaults(cls) == IF cls = "Agent" THEN AgentDefaults ELSE ContentDefaults

RECURSIVE Assignments(_, _, _, _)
\* The assignments self.f = ... of __init__ of cls for the attributes fs in
\* order: self with all of them set, or the first exception raised, which
\* ends __init__ and leaves self to nobody.
Assignments(self, cls, kwargs, fs) ==
    IF Len(fs) = 0 THEN self
    ELSE LET f == Head(fs)
             v == Assign(cls, f, Bind(Defaults(cls), kwargs, f))
         IN  IF v.k = "raised" THEN v
             ELSE Assignments([g \in DOMAIN self \cup {f} |-> IF g = f THEN v ELSE self[g]],
                              cls, kwargs, Tail(fs))

\* Agent(**kwargs) on the heap h: the heap with the new Agent and the
\* reference to it, or the heap as it was and the exception
Agent__init__(h, kwargs) ==
    LET self == Assignments(
                    [type |-> "Agent",
                     agent_id |-> Or(Bind(AgentDefaults, kwargs, "agent_id"), uuid4)],
                    "Agent", kwargs, Fields)
    IN  IF "k" \in DOMAIN self THEN [heap |-> h, ret |-> self] ELSE Alloc(h, self)

\* Content(**kwargs) on the heap h
Content__init__(h, kwargs) ==
    LET self == Assignments(
                    [type |-> "Content",
                     content_id |-> Or(Bind(ContentDefaults, kwargs, "content_id"), uuid4)],
                    "Content", kwargs, Fields)
    IN  IF "k" \in DOMAIN self THEN [heap |-> h, ret |-> self] ELSE Alloc(h, self)

\* Agent.to_dict(): the attributes by name, cultural as the value of its member
Agent_to_dict(self) ==
    Dict([f \in {"agent_id"} \cup FieldSet |->
            IF f = "cultural" THEN self.cultural.value ELSE self[f]])

\* the dictionary with one more key, tiered_income, holding the income
Content_to_dict_tiered(self) ==
    Dict([f \in {"content_id", "tiered_income"} \cup FieldSet |->
            IF f = "cultural"
            THEN IF self.cultural = None THEN None ELSE self.cultural.value
            ELSE IF f = "tiered_income" THEN self.economic_status
            ELSE self[f]])

\* Content.to_dict(): the attributes by name, cultural as the value of its
\* member or None
Content_to_dict(self) ==
    Dict([f \in {"content_id"} \cup FieldSet |->
            IF f = "cultural"
            THEN IF self.cultural = None THEN None ELSE self.cultural.value
            ELSE self[f]])

----------------------------------------------------------------------------
(* logic.py *)

\* _as_dict(obj): always a dict of its own; a Mapping is copied, an object
\* that has to_dict() gives what that returns, anything else gives {}
_as_dict(h, obj) ==
    CASE obj = None -> Alloc(h, Dict(<<>>))
      [] obj.k = "ref" /\ Deref(h, obj).type = "dict" -> Alloc(h, Dict(Deref(h, obj).map))
      [] obj.k = "ref" /\ Deref(h, obj).type = "Agent" -> Alloc(h, Agent_to_dict(Deref(h, obj)))
      [] obj.k = "ref" /\ Deref(h, obj).type = "Content" -> Alloc(h, Content_to_dict(Deref(h, obj)))
      [] OTHER -> Alloc(h, Dict(<<>>))

attrs == <<"tiered_income", "ethics", "politics", "cultural", "age", "sex">>

\* f"diff_{attr}"
DiffName(attr) == "diff_" \o attr

\* no copy: df is agents_df itself
DfAlias(h, agents_df) == [heap |-> h, ret |-> agents_df]

\* a copy of the six tracked columns alone
DfCopyTracked(h, agents_df) ==
    LET t == Deref(h, agents_df)
        keep == SelectSeq(t.columns, LAMBDA c : \E i \in 1..Len(attrs) : attrs[i] = c)
    IN  Alloc(h, DataFrame(keep, [c \in {keep[j] : j \in 1..Len(keep)} |-> t.data[c]], t.n))

\* agents_df.copy(): a new DataFrame with the same labels and cells
DfCopy(h, agents_df) == Alloc(h, Deref(h, agents_df))

\* the difference with its sign
_diff_numeric_signed(x, c_num) ==
    LET x_num == to_numeric(x)
    IN  IF isna(x_num) \/ isna(c_num) THEN NaN
        ELSE PyFloat(x_num.v - c_num.v)

\* the closure _diff_numeric of one turn of the loop, c_num being the
\* content's value of that turn
_diff_numeric(x, c_num) ==
    LET x_num == to_numeric(x)
    IN  IF isna(x_num) \/ isna(c_num) THEN NaN
        ELSE PyFloat(Abs(x_num.v - c_num.v))

\* the label lower-cased but not trimmed
_normalize_cultural_untrimmed(val) ==
    IF val = None \/ isna(val) THEN None
    ELSE LET base == IF HasValue(val) THEN val.value ELSE val
         IN  PyStr(lower(str(base).s))

_normalize_cultural(val) ==
    IF val = None \/ isna(val) THEN None
    ELSE LET base == IF HasValue(val) THEN val.value ELSE val
         IN  PyStr(lower(strip(str(base).s)))

_diff_cultural(x, norm_c) ==
    LET nx == _normalize_cultural(x)
    IN  IF nx = None \/ norm_c = None THEN NaN
        ELSE IF nx = norm_c THEN PyFloat(Fixed(0)) ELSE PyFloat(Fixed(1))

\* the column-wise difference of a missing cell filled with 0.0
TieredIncomeStepFilled(h, df, content_dict) ==
    LET content_tier == float(to_numeric(get(content_dict, "tiered_income")))
        t == Deref(h, df)
        filled(series) == [i \in 1..Len(series) |-> IF isna(series[i]) THEN PyFloat(0) ELSE series[i]]
    IN  IF HasColumn(t, "tiered_income") /\ ~isna(content_tier)
        THEN Store(h, df, SetColumn(t, "diff_tiered_income",
                 filled(SeriesAbs(SeriesSub(to_numeric_series(t.data["tiered_income"]), content_tier)))))
        ELSE Store(h, df, SetColumn(t, "diff_tiered_income", Broadcast(t, NaN)))

\* lines 69-78: diff_tiered_income, computed on the whole column at once
TieredIncomeStep(h, df, content_dict) ==
    LET content_tier == float(to_numeric(get(content_dict, "tiered_income")))
        t == Deref(h, df)
    IN  IF HasColumn(t, "tiered_income") /\ ~isna(content_tier)
        THEN Store(h, df, SetColumn(t, "diff_tiered_income",
                 SeriesAbs(SeriesSub(to_numeric_series(t.data["tiered_income"]), content_tier))))
        ELSE Store(h, df, SetColumn(t, "diff_tiered_income", Broadcast(t, NaN)))

\* one turn of the loop of lines 85-104
NumericStep(h, df, content_dict, attr) ==
    LET c_num == to_numeric(get(content_dict, attr))
        t == Deref(h, df)
    IN  IF HasColumn(t, attr)
        THEN Store(h, df, SetColumn(t, DiffName(attr),
                 [i \in 1..Len(t.data[attr]) |-> _diff_numeric(t.data[attr][i], c_num)]))
        ELSE Store(h, df, SetColumn(t, DiffName(attr), Broadcast(t, NaN)))

RECURSIVE NumericLoop(_, _, _, _)
\* for attr in as: ...
NumericLoop(h, df, content_dict, as) ==
    IF Len(as) = 0 THEN h
    ELSE NumericLoop(NumericStep(h, df, content_dict, Head(as)), df, content_dict, Tail(as))

\* lines 107-130, once df["cultural"] has been found
CulturalStep(h, df, content_dict) ==
    LET norm_c == _normalize_cultural(get(content_dict, "cultural"))
        t == Deref(h, df)
    IN  Store(h, df, SetColumn(t, "diff_cultural",
            [i \in 1..Len(t.data["cultural"]) |-> _diff_cultural(t.data["cultural"][i], norm_c)]))

\* lines 133-134
BaseScoreStep(h, df) ==
    LET diff_cols == [i \in 1..Len(attrs) |-> DiffName(attrs[i])]
        t == Deref(h, df)
    IN  Store(h, df, SetColumn(t, "base_score", OneMinus(MeanSkipNa(t, diff_cols))))

\* compute_base_match_df(agents_df, content) on the heap h: the heap after the
\* call, and the reference it returns or the exception it raises
compute_base_match_df(h, agents_df, content) ==
    LET d == _as_dict(h, content)
        content_dict == Deref(d.heap, d.ret)
        c == DfCopy(d.heap, agents_df)
        df == c.ret
        h1 == TieredIncomeStep(c.heap, df, content_dict)
        h2 == NumericLoop(h1, df, content_dict, <<"ethics", "politics", "age", "sex">>)
    IN  IF ~HasColumn(Deref(h2, df), "cultural")
        THEN [heap |-> h2, ret |-> Raised("KeyError")]
        ELSE [heap |-> BaseScoreStep(CulturalStep(h2, df, content_dict), df), ret |-> df]

----------------------------------------------------------------------------
(* The calls of compute_base_match_df *)

\* rows of the largest agent table
MaxRows == 2
\* whitespace put on each side of a padded label
MaxPad == 1

AttrSet == {attrs[i] : i \in 1..Len(attrs)}
NumericAttrs == AttrSet \ {"cultural"}

UpperChar(c) ==
    IF \E i \in 1..Len(LowerChars) : LowerChars[i] = c
    THEN UpperChars[CHOOSE i \in 1..Len(LowerChars) : LowerChars[i] = c]
    ELSE c
upper(s) == [i \in 1..Len(s) |-> UpperChar(s[i])]
capitalize(s) == [i \in 1..Len(s) |-> IF i = 1 THEN UpperChar(s[i]) ELSE s[i]]
Spaces(n) == [i \in 1..n |-> " "]
Padded(s) == Spaces(MaxPad) \o s \o Spaces(MaxPad)

\* Row i of the agent table.  Row 1 is the agent
\* {tiered_income: 3, ethics: 0.4, politics: 1, cultural: "western", age: 30, sex: 0}.
BaseRow(i) ==
    [tiered_income |-> PyInt(2 + i), ethics |-> PyFloat(3 + i), politics |-> PyInt(2 - i),
     cultural |-> PyStr(IF i % 2 = 1 THEN western ELSE eastern),
     age |-> PyInt(29 + i), sex |-> PyInt((i + 1) % 2)]

\* the content {tiered_income: 3, ethics: 0.6, politics: 1, cultural: "western", age: 40, sex: 1}
BaseContent ==
    [tiered_income |-> PyInt(3), ethics |-> PyFloat(6), politics |-> PyInt(1),
     cultural |-> PyStr(western), age |-> PyInt(40), sex |-> PyInt(1)]

\* what a numeric cell may hold instead: nothing, NaN, a string that is a
\* number, and a string that is none
NumericAlts ==
    {None, NaN, PyStr(<<"7">>), PyStr(<<"0", ".", "5">>), PyStr(<<"x">>)}

\* what a cultural cell may hold instead
CulturalAlts ==
    {None, NaN, Member("agent", "WESTERN"), Member("agent", "EASTERN"),
     PyStr(Padded(capitalize(western))), PyStr(upper(eastern)), PyStr(<<>>)}

Alts(a) == IF a = "cultural" THEN CulturalAlts ELSE NumericAlts

NoEdit == [row |-> 0, attr |-> "", val |-> None]
CellEdits == {[row |-> i, attr |-> a, val |-> v] : i \in 1..MaxRows, a \in AttrSet, v \in NumericAlts \cup CulturalAlts}

\* the tables: the first n rows as they are, or all rows with one cell replaced
TableRows ==
    {<<n, NoEdit>> : n \in 0..MaxRows}
        \cup {<<MaxRows, e>> : e \in {e \in CellEdits : e.val \in Alts(e.attr)}}

\* a column that is not one of the six, and two whose labels are those of
\* columns the scorer writes
ExtraColumns == {"agent_id", "base_score", "diff_age"}

\* the columns of the table: all six, all but one, or all six after another
TableColumns ==
    {attrs} \cup {SelectSeq(attrs, LAMBDA a : a # d) : d \in AttrSet}
        \cup {<<c>> \o attrs : c \in ExtraColumns}

AgentsDf(nr, columns) ==
    LET n == nr[1]
        edit == nr[2]
        cell(i, c) ==
            IF c \in ExtraColumns THEN PyInt(100 + i)
            ELSE IF edit.row = i /\ edit.attr = c THEN edit.val
            ELSE BaseRow(i)[c]
    IN  DataFrame(columns,
                  [c \in {columns[j] : j \in 1..Len(columns)} |-> [i \in 1..n |-> cell(i, c)]],
                  n)

\* the mappings given as content: any subset of the six keys, or all six
\* with one value replaced
ContentMaps ==
    {[a \in K |-> BaseContent[a]] : K \in SUBSET AttrSet}
        \cup {[BaseContent EXCEPT ![a] = v] : a \in NumericAttrs, v \in NumericAlts \cup {PyInt(5)}}
        \cup {[BaseContent EXCEPT !["cultural"] = v] : v \in CulturalAlts}

\* the content argument: None, a mapping, or an object that has no to_dict()
ContentObjects == {None, [type |-> "object"]} \cup {Dict(m) : m \in ContentMaps}

----------------------------------------------------------------------------
(* The calls of the constructors *)

IdParam(cls) == IF cls = "Agent" THEN "agent_id" ELSE "content_id"
EnumOf(cls) == IF cls = "Agent" THEN "agent" ELSE "content"

\* a call that gives every parameter a value within its bound
BaseKwargs(cls) ==
    [f \in {IdParam(cls)} \cup FieldSet |->
        CASE f = IdParam(cls) -> PyStr(<<"i", "d">>)
          [] f = "education" -> PyInt(3)
          [] f = "economic_status" -> PyInt(50000)
          [] f = "ethics" -> PyFloat(4)
          [] f = "politics" -> PyInt(1)
          [] f = "cultural" -> Member(EnumOf(cls), "WESTERN")
          [] f = "age" -> PyInt(30)
          [] f = "sex" -> PyInt(1)
          [] OTHER -> PyFloat(5)]

\* incomes, in tenths: around multiples of 5000 at both ends of the range,
\* the halves between them and their neighbours
EconomicValues ==
    {PyFloat(Fixed(m) + d) :
        m \in {10000, 15000, 20000, 495000, 500000},
        d \in {-25001, -25000, -24999, -1, 0, 1, 24999, 25000, 25001}}
        \cup {PyInt(12500), PyInt(17500), PyFloat(5), PyInt(0), NaN, None, PyStr(<<"x">>)}

\* the values tried for a parameter: at, within and beyond its bound, and of
\* another type
ParamValues(cls, f) ==
    CASE f = IdParam(cls) -> {None, PyStr(<<>>)}
      [] f = "education" -> {PyInt(0), PyInt(1), PyInt(5), PyInt(6), PyFloat(Fixed(3)), None}
      [] f = "economic_status" -> EconomicValues
      [] f = "politics" -> {PyInt(-3), PyInt(-2), PyInt(2), PyInt(3), PyFloat(0), None}
      [] f = "cultural" ->
            {Member("agent", "EASTERN"), Member("content", "MULTICULTURAL"),
             PyStr(indigenous), PyStr(upper(western)), PyStr(<<"x">>), None}
      [] f = "age" -> {PyInt(4), PyInt(5), PyInt(90), PyInt(91), PyFloat(Fixed(30)), None}
      [] f = "sex" ->
            {PyInt(-1), PyInt(0), PyInt(2), PyInt(3), PyFloat(Fixed(1)), PyFloat(5),
             PyStr(<<"1">>), None}
      [] OTHER ->
            {PyFloat(-1), PyFloat(0), PyFloat(Fixed(1)), PyFloat(Fixed(1) + 1), PyInt(1),
             NaN, PyStr(<<"x">>), None}

\* a change to a call: a parameter given another value, or not given
KwargEdits(cls) ==
    {[op |-> "keep", f |-> "", val |-> None]}
        \cup {[op |-> "omit", f |-> f, val |-> None] : f \in {IdParam(cls)} \cup FieldSet}
        \cup UNION {{[op |-> "set", f |-> f, val |-> v] : v \in ParamValues(cls, f)} :
                        f \in {IdParam(cls)} \cup FieldSet}

EditKwargs(kwargs, e) ==
    CASE e.op = "keep" -> kwargs
      [] e.op = "omit" -> [g \in DOMAIN kwargs \ {e.f} |-> kwargs[g]]
      [] e.op = "set" -> [g \in DOMAIN kwargs \cup {e.f} |-> IF g = e.f THEN e.val ELSE kwargs[g]]

\* the calls: every parameter given, or none, and up to two changes
KwargsInputs(cls) ==
    {EditKwargs(EditKwargs(base, e1), e2) :
        base \in {BaseKwargs(cls), <<>>}, e1 \in KwargEdits(cls), e2 \in KwargEdits(cls)}

\* the calls that make the Content instances given as content: every
\* attribute set, with several incomes; one attribute of the scorer's left
\* out; cultural given as a string; and Content()
ContentInstanceKwargs ==
    {[BaseKwargs("Content") EXCEPT !["economic_status"] = v] :
        v \in {PyInt(50000), PyInt(10000), PyFloat(Fixed(12500)), None}}
        \cup {[BaseKwargs("Content") EXCEPT ![f] = None] :
                f \in {"ethics", "politics", "cultural", "age", "sex"}}
        \cup {[BaseKwargs("Content") EXCEPT !["cultural"] = PyStr(eastern)], <<>>}

\* the Content instances given as content
ContentInstances ==
    {LET r == Content__init__(<<>>, kwargs) IN Deref(r.heap, r.ret) :
        kwargs \in ContentInstanceKwargs}

Init ==
    /\ heap = <<>>
    /\ pc = "idle"
    /\ args = None
    /\ before = <<>>
    /\ ret = None

\* the caller builds an agent table and a content record
CallComputeBaseMatch ==
    /\ pc = "idle"
    /\ \E nr \in TableRows, columns \in TableColumns, o \in ContentObjects \cup ContentInstances :
        LET a == Alloc(heap, AgentsDf(nr, columns))
            b == IF o = None THEN [heap |-> a.heap, ret |-> None] ELSE Alloc(a.heap, o)
        IN  /\ args' = [agents_df |-> a.ret, content |-> b.ret]
            /\ before' = b.heap
            /\ heap' = b.heap
    /\ ret' = None
    /\ pc' = "call compute_base_match_df"

\* compute_base_match_df(agents_df, content), from the call to the return
ComputeBaseMatch ==
    /\ pc = "call compute_base_match_df"
    /\ LET r == compute_base_match_df(heap, args.agents_df, args.content)
       IN  /\ heap' = r.heap
           /\ ret' = r.ret
    /\ pc' = "compute_base_match_df"
    /\ UNCHANGED <<args, before>>

\* the caller chooses the arguments of Agent(...)
CallAgent ==
    /\ pc = "idle"
    /\ \E kwargs \in KwargsInputs("Agent") : args' = [kwargs |-> kwargs]
    /\ pc' = "call Agent"
    /\ ret' = None
    /\ UNCHANGED <<heap, before>>

\* the caller chooses the arguments of Content(...)
CallContent ==
    /\ pc = "idle"
    /\ \E kwargs \in KwargsInputs("Content") : args' = [kwargs |-> kwargs]
    /\ pc' = "call Content"
    /\ ret' = None
    /\ UNCHANGED <<heap, before>>

\* Agent(**kwargs), from the call to the return or the exception
NewAgent ==
    /\ pc = "call Agent"
    /\ LET r == Agent__init__(heap, args.kwargs)
       IN  /\ heap' = r.heap
           /\ ret' = r.ret
    /\ pc' = "Agent"
    /\ UNCHANGED <<args, before>>

\* Content(**kwargs), from the call to the return or the exception
NewContent ==
    /\ pc = "call Content"
    /\ LET r == Content__init__(heap, args.kwargs)
       IN  /\ heap' = r.heap
           /\ ret' = r.ret
    /\ pc' = "Content"
    /\ UNCHANGED <<args, before>>

\* the caller drops the result and every object of the call
Return ==
    /\ pc \in {"compute_base_match_df", "Agent", "Content"}
    /\ pc' = "idle"
    /\ heap' = <<>>
    /\ args' = None
    /\ before' = <<>>
    /\ ret' = None

Next ==
    \/ CallComputeBaseMatch
    \/ ComputeBaseMatch
    \/ CallAgent
    \/ NewAgent
    \/ CallContent
    \/ NewContent
    \/ Return

Spec == Init /\ [][Next]_vars

----------------------------------------------------------------------------
(* The scorer's properties *)

Called == pc = "compute_base_match_df"
Returned == Called /\ ret.k = "ref"

\* the agent table as it was given, and the table returned
In == Deref(before, args.agents_df)
Out == Deref(heap, ret)

\* the content argument is a Content instance
ContentIsInstance ==
    args.content # None /\ Deref(before, args.content).type = "Content"

\* the mapping the content argument stands for: the mapping itself, or the
\* attributes of the Content instance
ContentGiven ==
    IF args.content # None /\ Deref(before, args.content).type = "dict"
    THEN Deref(before, args.content).map
    ELSE IF ContentIsInstance
    THEN [f \in FieldSet |-> Deref(before, args.content)[f]]
    ELSE <<>>

DiffCols == {DiffName(a) : a \in AttrSet}
OutputCols == DiffCols \cup {"base_score"}
ColumnSet(t) == {t.columns[j] : j \in 1..Len(t.columns)}

RECURSIVE SumOver(_, _, _)
\* the sum of the cells of row i of t in the columns cs
SumOver(t, i, cs) ==
    IF cs = {} THEN 0
    ELSE LET c == CHOOSE c \in cs : TRUE
         IN  t.data[c][i].v + SumOver(t, i, cs \ {c})

\* the diff columns that are defined in row i of the output
Available(i) == {c \in DiffCols : Out.data[c][i] # NaN}

C2_MissingColumnIsUndefinedNotAnError ==
    Called =>
        \A a \in AttrSet :
            ~HasColumn(In, a) =>
                /\ ret.k = "ref"
                /\ \A i \in 1..Out.n : Out.data[DiffName(a)][i] = NaN

\* Whether a cell is a number or a string that is one, and the number it
\* is, in tenths: stated value by value, not through the parser.
Defined(x) ==
    x.k \in {"int", "float"} \/ x \in {PyStr(<<"7">>), PyStr(<<"0", ".", "5">>)}

NumberOf(x) ==
    CASE x.k \in {"int", "float"} -> x.v
      [] x = PyStr(<<"7">>) -> 70
      [] x = PyStr(<<"0", ".", "5">>) -> 5

ContentValue(a) == IF a \in DOMAIN ContentGiven THEN ContentGiven[a] ELSE None

\* C3: for ethics, politics, age and sex, the diff of a row is |agent value -
\* content value| when both are numbers or parse as numbers, and undefined
\* when either is missing or no number; a bad value never makes the call
\* fail, and each diff depends on its own cell and the content's value only.
C3_NumericDiff ==
    Called =>
        /\ HasColumn(In, "cultural") => ret.k = "ref"
        /\ ret.k = "ref" =>
            \A a \in {"ethics", "politics", "age", "sex"} : \A i \in 1..Out.n :
                HasColumn(In, a) =>
                    LET x == In.data[a][i]
                        c == ContentValue(a)
                    IN  Out.data[DiffName(a)][i] =
                            IF Defined(x) /\ Defined(c)
                            THEN PyFloat(Abs(NumberOf(x) - NumberOf(c)))
                            ELSE NaN

\* a row whose ethics cell is no number, next to a row whose ethics diff is
\* defined, and a string that parses giving a diff
C3_Witness ==
    /\ Returned
    /\ HasColumn(In, "ethics")
    /\ \E i, j \in 1..Out.n :
        /\ In.data["ethics"][i] = PyStr(<<"x">>)
        /\ Out.data["diff_ethics"][i] = NaN
        /\ Out.data["diff_ethics"][j] # NaN
        /\ Out.data["diff_age"][j] # NaN
        /\ IsNumber(In.data["age"][j])
        /\ Out.data["diff_age"][j].v = Fixed(40) - In.data["age"][j].v

\* C4: diff_tiered_income, computed on the column, is in every row what the
\* per-row rule of the other numeric attributes gives for that row; without
\* the column, or with the content's value missing or no number, it is
\* undefined in every row.
C4_TieredIncomeRowwise ==
    Returned =>
        \A i \in 1..Out.n :
            /\ Out.data["diff_tiered_income"][i] =
                    IF HasColumn(In, "tiered_income")
                    THEN _diff_numeric(In.data["tiered_income"][i],
                                       to_numeric(ContentValue("tiered_income")))
                    ELSE NaN
            /\ (~HasColumn(In, "tiered_income") \/ ~Defined(ContentValue("tiered_income")))
                    => Out.data["diff_tiered_income"][i] = NaN

\* a column with a cell that is no number and a cell that is one
C4_Witness ==
    /\ Returned
    /\ HasColumn(In, "tiered_income")
    /\ \E i, j \in 1..Out.n :
        /\ ~Defined(In.data["tiered_income"][i])
        /\ Out.data["diff_tiered_income"][i] = NaN
        /\ Out.data["diff_tiered_income"][j] # NaN
        /\ Out.data["diff_tiered_income"][j].v > 0

\* The label a cultural value stands for, or "missing": stated value by
\* value, not through the normalisation.
LabelOf(x) ==
    CASE x = PyStr(western) -> "western"
      [] x = PyStr(eastern) -> "eastern"
      [] x = Member("agent", "WESTERN") -> "western"
      [] x = Member("agent", "EASTERN") -> "eastern"
      [] x = Member("content", "WESTERN") -> "western"
      [] x = Member("content", "EASTERN") -> "eastern"
      [] x = PyStr(Padded(capitalize(western))) -> "western"
      [] x = PyStr(upper(eastern)) -> "eastern"
      [] x = PyStr(<<>>) -> ""
      [] x \in {None, NaN} -> "missing"

\* C5: diff_cultural is 0.0 when the agent's and the content's labels are the
\* same up to case and surrounding whitespace, a member of the enumeration
\* counting as its tag; 1.0 when they differ; undefined when either is missing.
C5_CulturalDiff ==
    Returned =>
        \A i \in 1..Out.n :
            LET lx == LabelOf(In.data["cultural"][i])
                lc == LabelOf(ContentValue("cultural"))
            IN  Out.data["diff_cultural"][i] =
                    IF lx = "missing" \/ lc = "missing" THEN NaN
                    ELSE IF lx = lc THEN PyFloat(Fixed(0)) ELSE PyFloat(Fixed(1))

\* an enumeration member against its tag capitalised and padded: equal
C5_Witness ==
    /\ Returned
    /\ ContentValue("cultural") = PyStr(Padded(capitalize(western)))
    /\ \E i, j \in 1..Out.n :
        /\ In.data["cultural"][i] = Member("agent", "WESTERN")
        /\ Out.data["diff_cultural"][i] = PyFloat(Fixed(0))
        /\ Out.data["diff_cultural"][j] = PyFloat(Fixed(1))

C7_InputsNotMutated ==
    Called =>
        /\ \A r \in 1..Len(before) : heap[r] = before[r]
        /\ ret.k = "ref" => ret # args.agents_df /\ ret # args.content

\* a call with a table of rows and a mapping, which returned a table
C7_Witness ==
    /\ Returned
    /\ In.n >= 1
    /\ args.content # None
    /\ Deref(heap, args.content).type = "dict"
    /\ Out # In

----------------------------------------------------------------------------
(* The constructors' properties *)

Constructed == pc \in {"Agent", "Content"}

\* the value each parameter of the call was bound to
Given(f) ==
    Bind(IF pc = "Agent" THEN AgentDefaults ELSE ContentDefaults, args.kwargs, f)

\* the object constructed
Obj == Deref(heap, ret)

WholeIn(x, lo, hi) == IsNumber(x) /\ \E n \in lo..hi : x.v = Fixed(n)
RealIn(x, lo, hi) == IsNumber(x) /\ Fixed(lo) <= x.v /\ x.v <= Fixed(hi)

\* the declared bound of attribute f of class cls, for a value that is present
InBound(cls, f, x) ==
    CASE f = "education" -> WholeIn(x, 1, 5)
      [] f = "economic_status" -> RealIn(x, 10000, 500000)
      [] f = "politics" -> WholeIn(x, -2, 2)
      [] f = "cultural" ->
            \/ x.k = "enum" /\ x.value.s \in {western, eastern, african, indigenous, multicultural}
            \/ x.k = "str" /\ x.s \in {western, eastern, african, indigenous, multicultural}
      [] f = "age" -> WholeIn(x, 5, 90)
      [] f = "sex" -> WholeIn(x, 0, IF cls = "Agent" THEN 2 ELSE 1)
      [] OTHER -> RealIn(x, 0, 1)

\* the attributes whose given value breaks the bound; for Content a value
\* that is absent breaks none
Violations ==
    {f \in FieldSet : ~(pc = "Content" /\ Given(f) = None) /\ ~InBound(pc, f, Given(f))}

\* C8: a construction either raises, and then no object is made, or gives an
\* object whose every attribute is within its bound, an attribute of a
\* Content being absent exactly when none was given; a call with a value
\* that breaks a bound raises.
C8_ConstructedWithinBounds ==
    Constructed =>
        /\ ret.k \in {"raised", "ref"}
        /\ ret.k = "raised" => heap = before
        /\ ret.k = "ref" =>
            /\ Obj.type = pc
            /\ DOMAIN Obj = {"type", IdParam(pc)} \cup FieldSet
            /\ \A f \in FieldSet :
                IF pc = "Content" /\ Given(f) = None THEN Obj[f] = None
                ELSE Obj[f] # None /\ Obj[f].k # "str" /\ InBound(pc, f, Obj[f])
        /\ Violations # {} => ret.k = "raised"

\* an Agent with its age at the upper bound, and with an income that was rounded
C8_Witness ==
    /\ pc = "Agent"
    /\ ret.k = "ref"
    /\ Obj.age = PyInt(90)
    /\ Given("economic_status") # Obj.economic_status

\* C9: an income within [10000, 500000] is stored as a multiple of 5000 that
\* is within the range and at most 2500 away; exactly between two multiples
\* it is the one whose quotient by 5000 is even.
C9_IncomeRounding ==
    (Constructed /\ ret.k = "ref" /\ RealIn(Given("economic_status"), 10000, 500000)) =>
        LET x == Given("economic_status").v
            e == Obj.economic_status
        IN  /\ IsNumber(e)
            /\ e.v % Fixed(5000) = 0
            /\ Abs(e.v - x) <= Fixed(2500)
            /\ RealIn(e, 10000, 500000)
            /\ x % Fixed(5000) = Fixed(2500) => (e.v \div Fixed(5000)) % 2 = 0

\* 12500 is stored as 10000: the half goes to the even quotient, here down
C9_Witness ==
    /\ pc = "Agent"
    /\ ret.k = "ref"
    /\ Given("economic_status").v = Fixed(12500)
    /\ Obj.economic_status = PyInt(10000)

\* a value the constructor of Agent is documented to take for parameter f
ValidArgument(f, x) ==
    CASE f = "agent_id" -> x = None \/ x.k = "str"
      [] f \in {"education", "politics", "age"} -> x.k = "int" /\ InBound("Agent", f, x)
      [] f = "cultural" -> IsMember("agent", x) \/ (x.k = "str" /\ InBound("Agent", f, x))
      [] OTHER -> IsNumber(x) /\ InBound("Agent", f, x)

\* C10: Agent(...) with every parameter either left out or given a valid
\* value returns an Agent, whose defaulted attributes are within their bounds.
C10_AgentFromDefaults ==
    (pc = "Agent" /\ \A f \in DOMAIN args.kwargs : ValidArgument(f, args.kwargs[f])) =>
        /\ ret.k = "ref"
        /\ \A f \in FieldSet \ DOMAIN args.kwargs : InBound("Agent", f, Obj[f])

----------------------------------------------------------------------------
(* The scorer given a Content instance *)

\* the dict that _as_dict made of the content argument: the first object
\* created by the call
ContentDict == heap[Len(before) + 1]

====
